---- MODULE Spec2Model ----
(***************************************************************************)
(* Glicko2 rating computation (package glocko2, src/glicko2.go).           *)
(*                                                                         *)
(* float64 values are modelled on a fixed-point grid: a finite value is    *)
(* an integer number of quanta, SC quanta making 1.0, of magnitude at most *)
(* LIM; beyond LIM a result overflows to +Inf / -Inf, and NaN is a value   *)
(* of its own, as in IEEE 754.  There is no negative zero.                 *)
(*                                                                         *)
(* The model follows the first definition of each function in the file     *)
(* (lines 1-164); the file repeats them from line 166 on.                  *)
(***************************************************************************)
EXTENDS Integers, Sequences, FiniteSets

\* ------------------------------------------------------------- float64

\* quanta per unit: the resolution of the grid
SC == 100
\* largest finite magnitude, in quanta
LIM == 200000

PInf == LIM + 1
NInf == -(LIM + 1)
NaN == LIM + 2

IsNaN(x) == x = NaN
IsInf(x) == x = PInf \/ x = NInf
IsFin(x) == ~IsNaN(x) /\ ~IsInf(x)

FOne == SC
FZero == 0 * SC

\* an integer number of units as a float64
Lit(n) == n * SC

IAbs(n) == IF n < 0 THEN -n ELSE n

ISgn(n) == IF n < 0 THEN -1 ELSE IF n > 0 THEN 1 ELSE 0

\* n / d rounded to the nearest integer, d > 0
RoundDiv(n, d) == IF n >= 0 THEN (n + d \div 2) \div d ELSE -((-n + d \div 2) \div d)

\* an exact result brought back to the representable values
Norm(n) == IF n > LIM THEN PInf ELSE IF n < -LIM THEN NInf ELSE n

FNeg(x) == IF IsNaN(x) THEN NaN ELSE -x

FAdd(x, y) ==
    IF IsNaN(x) \/ IsNaN(y) THEN NaN
    ELSE IF IsInf(x) /\ IsInf(y) THEN (IF x = y THEN x ELSE NaN)
    ELSE IF IsInf(x) THEN x
    ELSE IF IsInf(y) THEN y
    ELSE Norm(x + y)

FSub(x, y) == FAdd(x, FNeg(y))

FMul(x, y) ==
    IF IsNaN(x) \/ IsNaN(y) THEN NaN
    ELSE IF IsInf(x) \/ IsInf(y)
         THEN (IF x = 0 \/ y = 0 THEN NaN
               ELSE IF ISgn(x) * ISgn(y) > 0 THEN PInf ELSE NInf)
    ELSE IF x = 0 \/ y = 0 THEN 0
    ELSE IF IAbs(x) > ((LIM + 1) * SC) \div IAbs(y)
         THEN (IF ISgn(x) * ISgn(y) > 0 THEN PInf ELSE NInf)
    ELSE Norm(RoundDiv(x * y, SC))

FDiv(x, y) ==
    IF IsNaN(x) \/ IsNaN(y) THEN NaN
    ELSE IF IsInf(x) /\ IsInf(y) THEN NaN
    ELSE IF IsInf(x) THEN (IF ISgn(x) * ISgn(y) >= 0 THEN PInf ELSE NInf)
    ELSE IF IsInf(y) THEN 0
    ELSE IF y = 0 THEN (IF x = 0 THEN NaN ELSE IF x > 0 THEN PInf ELSE NInf)
    ELSE Norm(ISgn(y) * RoundDiv(x * SC, IAbs(y)))

\* comparisons: false whenever an operand is NaN
FLt(x, y) == ~IsNaN(x) /\ ~IsNaN(y) /\ x < y
FGt(x, y) == ~IsNaN(x) /\ ~IsNaN(y) /\ x > y
FLe(x, y) == ~IsNaN(x) /\ ~IsNaN(y) /\ x <= y

\* math.Abs
FAbs(x) == IF IsNaN(x) THEN NaN ELSE IAbs(x)

\* largest r in lo..hi with r * r <= n (lo * lo <= n)
RECURSIVE ISqrtIn(_, _, _)
ISqrtIn(n, lo, hi) ==
    IF lo >= hi THEN lo
    ELSE LET mid == (lo + hi + 1) \div 2
         IN IF mid * mid <= n THEN ISqrtIn(n, mid, hi) ELSE ISqrtIn(n, lo, mid - 1)

\* math.Sqrt
FSqrt(x) ==
    IF IsNaN(x) THEN NaN
    ELSE IF x < 0 THEN NaN
    ELSE IF x = PInf THEN PInf
    ELSE ISqrtIn(x * SC, 0, 46000)

\* e^n for n = 0..7, in hundredths
EPowPos == <<100, 272, 739, 2009, 5460, 14841, 40343, 109663>>

\* e^(-n) for n = 1..14, in millionths
EPowNeg == <<367879, 135335, 49787, 18316, 6738, 2479, 912, 335, 123, 45, 17, 6, 2, 1>>

\* the Taylor series of e^(r / SC), in thousandths: term is the k-1'th term
RECURSIVE ExpSeries(_, _, _)
ExpSeries(r, k, term) ==
    IF term = 0 THEN 0 ELSE term + ExpSeries(r, k + 1, (term * r) \div (k * SC))

\* e^(r / SC) for 0 <= r < SC, in thousandths
ExpFrac(r) == ExpSeries(r, 1, 1000)

\* math.Exp
FExp(x) ==
    IF IsNaN(x) THEN NaN
    ELSE IF x = PInf THEN PInf
    ELSE IF x = NInf THEN 0
    ELSE LET n == x \div SC
             r == x % SC
         IN IF n >= Len(EPowPos) THEN PInf
            ELSE IF n < -Len(EPowNeg) THEN 0
            ELSE IF n >= 0
                 THEN Norm(RoundDiv(RoundDiv(ExpFrac(r) * EPowPos[n + 1], 1000) * SC, 100))
            ELSE RoundDiv(ExpFrac(r) * EPowNeg[-n], 1000000000 \div SC)

\* largest y in lo..hi with FExp(y) <= x when strict is false, FExp(y) < x when it
\* is true (FExp(lo) satisfies it)
RECURSIVE LogIn(_, _, _, _)
LogIn(x, lo, hi, strict) ==
    IF lo >= hi THEN lo
    ELSE LET mid == (lo + hi + 1) \div 2
             ok == IF strict THEN FExp(mid) < x ELSE FExp(mid) <= x
         IN IF ok THEN LogIn(x, mid, hi, strict) ELSE LogIn(x, lo, mid - 1, strict)

\* math.Log: the middle of the values whose FExp is x
FLog(x) ==
    IF IsNaN(x) THEN NaN
    ELSE IF x < 0 THEN NaN
    ELSE IF x = 0 THEN NInf
    ELSE IF x = PInf THEN PInf
    ELSE LET lo == -(Len(EPowNeg) + 1) * SC
             hi == Len(EPowPos) * SC
             below == LogIn(x, lo, hi, TRUE)
             upto == LogIn(x, lo, hi, FALSE)
         IN (below + 1 + upto) \div 2

\* ----------------------------------------------------------- constants

\* scaling = 173.7178
scaling == RoundDiv(1737178 * SC, 10000)

\* ε = 0.000001; the grid is coarser than that, so ε is one quantum there
eps == IF SC >= 1000000 THEN SC \div 1000000 ELSE 1

\* math.Pi
Pi == RoundDiv(314159 * SC, 100000)

\* the literal 0.5
Half == SC \div 2

\* ---------------------------------------------------------------- state

VARIABLES
    \* scaleOpponents / updateRating
    rpc,        \* position in the rating pipeline
    mu,         \* scaleOpponents' mu
    os,         \* scaleOpponents' os
    os0,        \* history: os as passed by the caller
    res,        \* scaleOpponents' res, then updateRating's sopp
    ri,         \* index of the running range loop (1-based)
    s,          \* updateRating's s
    vOut,       \* updateRating's return value
    \* computeVolatility
    pc,         \* position in computeVolatility / volK
    sigma, phi, v, delta, tau,
    a, b, fa, fb, c, fc, d, fd,
    i,          \* the for loop's i
    ret,        \* the value returned
    \* volK
    caller,     \* who called volK: "computeVolatility" or "direct"
    fsel,       \* volK's f
    va, vtau,   \* volK's a and tau
    k, vc,      \* volK's k and c
    \* history
    a0,         \* a as first computed, ln(sigma^2)
    branch,     \* how b was initialised: "none", "log" or "volK"
    logArg,     \* the argument math.Log was given for b
    steps,      \* passes of volK's loop body so far
    bracketed0, \* sign(fa) # sign(fb) held when the loop was entered
    taken       \* the update cases (1, 2, 3) the loop has taken so far

rateVars == <<rpc, mu, os, os0, res, ri, s, vOut>>
volVars == <<pc, sigma, phi, v, delta, tau, a, b, fa, fb, c, fc, d, fd, i, ret,
             caller, fsel, va, vtau, k, vc, a0, branch, logArg, steps, bracketed0,
             taken>>
vars == <<rateVars, volVars>>

\* ------------------------------------------------------ pure functions

\* scale(r, rd) -> (mu, phi)
scale(r, rd) == <<FDiv(FSub(r, Lit(1500)), scaling), FDiv(rd, scaling)>>

g(p) == FDiv(FOne, FSqrt(FAdd(FOne, FDiv(FMul(FMul(Lit(3), p), p), FMul(Pi, Pi)))))

e(m, muj, phij) ==
    FDiv(FOne, FAdd(FOne, FExp(FMul(FNeg(g(phij)), FSub(m, muj)))))

sign(x) == IF FLt(x, 0) THEN FNeg(FOne) ELSE IF FGt(x, 0) THEN FOne ELSE FZero

\* the zero value of opp
ZeroOpp == [muj |-> 0, phij |-> 0, gphij |-> 0, emmp |-> 0, sj |-> 0]

\* the opp literal of scaleOpponents' loop body, for opponent o
oppOf(m, o) ==
    LET sc == scale(o.Rj, o.Rdj)
    IN [muj |-> sc[1], phij |-> sc[2], gphij |-> g(sc[2]),
        emmp |-> e(m, sc[1], sc[2]), sj |-> o.Sj]

\* ------------------------------------------- scaleOpponents, updateRating

\* res = make([]opp, len(os))
scaleOpponentsEnter ==
    /\ rpc = "scaleOpponents"
    /\ res' = [j \in 1..Len(os) |-> ZeroOpp]
    /\ ri' = 1
    /\ rpc' = "range"
    /\ UNCHANGED <<mu, os, os0, s, vOut>>
    /\ UNCHANGED volVars

\* scaleOpponentsIter with the record appended to res instead of stored at index i
scaleOpponentsIter_Append ==
    /\ rpc = "range"
    /\ ri <= Len(os)
    /\ res' = Append(res, oppOf(mu, os[ri]))
    /\ ri' = ri + 1
    /\ UNCHANGED <<rpc, mu, os, os0, s, vOut>>
    /\ UNCHANGED volVars

\* one pass of for i, o := range os
scaleOpponentsIter ==
    /\ rpc = "range"
    /\ ri <= Len(os)
    /\ res' = [res EXCEPT ![ri] = oppOf(mu, os[ri])]
    /\ ri' = ri + 1
    /\ UNCHANGED <<rpc, mu, os, os0, s, vOut>>
    /\ UNCHANGED volVars

\* return res
scaleOpponentsReturn ==
    /\ rpc = "range"
    /\ ri > Len(os)
    /\ rpc' = "scaled"
    /\ UNCHANGED <<mu, os, os0, res, ri, s, vOut>>
    /\ UNCHANGED volVars

\* updateRating(res): s := 0.0
updateRatingEnter ==
    /\ rpc = "scaled"
    /\ s' = FZero
    /\ ri' = 1
    /\ rpc' = "sum"
    /\ UNCHANGED <<mu, os, os0, res, vOut>>
    /\ UNCHANGED volVars

\* one pass of for _, o := range sopp
updateRatingIter ==
    /\ rpc = "sum"
    /\ ri <= Len(res)
    /\ LET o == res[ri]
       IN s' = FAdd(s, FMul(FMul(FMul(o.gphij, o.gphij), o.emmp), FSub(FOne, o.emmp)))
    /\ ri' = ri + 1
    /\ UNCHANGED <<rpc, mu, os, os0, res, vOut>>
    /\ UNCHANGED volVars

\* updateRatingResult with a default of zero substituted for an empty sum
updateRatingResult_Defaulted(sum) == IF sum = 0 THEN FZero ELSE FDiv(FOne, sum)

\* the value updateRating returns for the sum sum
updateRatingResult(sum) == FDiv(FOne, sum)

\* return 1 / s
updateRatingReturn ==
    /\ rpc = "sum"
    /\ ri > Len(res)
    /\ vOut' = updateRatingResult(s)
    /\ rpc' = "done"
    /\ UNCHANGED <<mu, os, os0, res, ri, s>>
    /\ UNCHANGED volVars

\* ------------------------------------------------------ computeVolatility

phi2 == FMul(phi, phi)

\* the closure f.  It captures the variable a, not its first value: acur is the
\* value a holds when f runs.
fAt(x, acur) ==
    LET ex == FExp(x)
        d2 == FMul(delta, delta)
        a2 == FAdd(FAdd(phi2, v), ex)
        p2 == FDiv(FSub(x, acur), FMul(tau, tau))
        p1 == FDiv(FMul(ex, FSub(FSub(FSub(d2, phi2), v), ex)), FMul(FMul(Lit(2), a2), a2))
    IN FSub(p1, p2)

\* f(x) as the program evaluates it now: the closure reads the variable a
f(x) == fAt(x, a)

\* volK's parameter f applied to x
callF(x) ==
    IF fsel.kind = "closure" THEN f(x)
    ELSE IF fsel.kind = "const" THEN fsel.t
    ELSE FSub(fsel.t, x)

volKVars == <<caller, fsel, va, vtau, k, vc, steps>>

\* a := math.Log(sigma * sigma); phi2; f
computeVolatilityEnter ==
    /\ pc = "computeVolatility"
    /\ a' = FLog(FMul(sigma, sigma))
    /\ a0' = a'
    /\ pc' = "bracket"
    /\ UNCHANGED <<sigma, phi, v, delta, tau, b, fa, fb, c, fc, d, fd, i, ret,
                   branch, logArg, bracketed0, taken>>
    /\ UNCHANGED volKVars
    /\ UNCHANGED rateVars

\* the condition of the if choosing how b is initialised
useLog == FGt(FMul(delta, delta), FMul(phi, phi))

\* b = math.Log(delta * delta - phi * phi - v)
BracketLog ==
    /\ pc = "bracket"
    /\ useLog
    /\ logArg' = FSub(FSub(FMul(delta, delta), FMul(phi, phi)), v)
    /\ b' = FLog(logArg')
    /\ branch' = "log"
    /\ pc' = "eval"
    /\ UNCHANGED <<sigma, phi, v, delta, tau, a, fa, fb, c, fc, d, fd, i, ret,
                   a0, bracketed0, taken>>
    /\ UNCHANGED volKVars
    /\ UNCHANGED rateVars

\* b = volK(f, a, tau): the call
BracketVolK ==
    /\ pc = "bracket"
    /\ ~useLog
    /\ caller' = "computeVolatility"
    /\ fsel' = [kind |-> "closure", t |-> 0]
    /\ va' = a
    /\ vtau' = tau
    /\ branch' = "volK"
    /\ pc' = "volK"
    /\ UNCHANGED <<sigma, phi, v, delta, tau, a, b, fa, fb, c, fc, d, fd, i, ret,
                   a0, logArg, bracketed0, taken, k, vc, steps>>
    /\ UNCHANGED rateVars

\* volK's step: math.Sqrt(tau * tau)
volKStep == FSqrt(FMul(vtau, vtau))

\* k := 0.0; c := a - k * math.Sqrt(tau * tau)
volKEnter ==
    /\ pc = "volK"
    /\ k' = FZero
    /\ vc' = FSub(va, FMul(FZero, volKStep))
    /\ steps' = 0
    /\ pc' = "volK_test"
    /\ UNCHANGED <<sigma, phi, v, delta, tau, a, b, fa, fb, c, fc, d, fd, i, ret,
                   a0, branch, logArg, bracketed0, taken, caller, fsel, va, vtau>>
    /\ UNCHANGED rateVars

\* passes of volK's loop body the model follows
MaxVolKSteps == 10001

\* volKContinue with the comparison turned round
volKContinue_WhilePositive == FGt(callF(vc), FZero)

\* the loop condition of volK
volKContinue == FLt(callF(vc), FZero)

\* the loop body and post statement: c = a - k * math.Sqrt(tau * tau); k += 1.0
volKLoop ==
    /\ pc = "volK_test"
    /\ volKContinue
    /\ steps < MaxVolKSteps
    /\ vc' = FSub(va, FMul(k, volKStep))
    /\ k' = FAdd(k, FOne)
    /\ steps' = steps + 1
    /\ UNCHANGED <<pc, sigma, phi, v, delta, tau, a, b, fa, fb, c, fc, d, fd, i, ret,
                   a0, branch, logArg, bracketed0, taken, caller, fsel, va, vtau>>
    /\ UNCHANGED rateVars

\* return c
volKReturn ==
    /\ pc = "volK_test"
    /\ ~volKContinue
    /\ IF caller = "computeVolatility"
       THEN /\ b' = vc
            /\ pc' = "eval"
            /\ ret' = ret
       ELSE /\ ret' = vc
            /\ pc' = "returned"
            /\ b' = b
    /\ UNCHANGED <<sigma, phi, v, delta, tau, a, fa, fb, c, fc, d, fd, i,
                   a0, branch, logArg, bracketed0, taken>>
    /\ UNCHANGED volKVars
    /\ UNCHANGED rateVars

\* the start value of the for loop's i
MaxIter == 100

\* fa := f(a); fb := f(b); for i := 100
EvalBracket ==
    /\ pc = "eval"
    /\ fa' = f(a)
    /\ fb' = f(b)
    /\ i' = MaxIter
    /\ bracketed0' = (sign(fa') # sign(fb'))
    /\ pc' = "loop"
    /\ UNCHANGED <<sigma, phi, v, delta, tau, a, b, c, fc, d, fd, ret,
                   a0, branch, logArg, taken>>
    /\ UNCHANGED volKVars
    /\ UNCHANGED rateVars

\* converged without the absolute value
converged_NoAbs(aa, bb) == FLe(FSub(bb, aa), eps)

\* math.Abs(b - a) <= ε
converged(aa, bb) == FLe(FAbs(FSub(bb, aa)), eps)

\* return math.Exp(a / 2)
Converge ==
    /\ pc = "loop"
    /\ converged(a, b)
    /\ ret' = FExp(FDiv(a, Lit(2)))
    /\ pc' = "done"
    /\ UNCHANGED <<sigma, phi, v, delta, tau, a, b, fa, fb, c, fc, d, fd, i,
                   a0, branch, logArg, bracketed0, taken>>
    /\ UNCHANGED volKVars
    /\ UNCHANGED rateVars

\* iterations past the hundredth the model follows
MaxOverrun == 2

\* illinois with the second test made first
illinois_SecondTestFirst(aa, bb, ffa, ffb, cc, ffc, dd, ffd) ==
    IF sign(ffd) # sign(ffa) THEN <<aa, dd, ffa, ffd>>
    ELSE IF sign(ffd) # sign(ffc) THEN <<cc, dd, ffc, ffd>>
    ELSE <<dd, bb, ffd, ffb>>

\* illinois with the third case moving b where it should move a
illinois_ThirdMovesB(aa, bb, ffa, ffb, cc, ffc, dd, ffd) ==
    IF sign(ffd) # sign(ffc) THEN <<cc, dd, ffc, ffd>>
    ELSE IF sign(ffd) # sign(ffa) THEN <<aa, dd, ffa, ffd>>
    ELSE <<aa, dd, ffa, ffd>>

\* the bracket <<a, b, fa, fb>> after the Illinois update with midpoint cc and
\* accelerated point dd
illinois(aa, bb, ffa, ffb, cc, ffc, dd, ffd) ==
    IF sign(ffd) # sign(ffc) THEN <<cc, dd, ffc, ffd>>
    ELSE IF sign(ffd) # sign(ffa) THEN <<aa, dd, ffa, ffd>>
    ELSE <<dd, bb, ffd, ffb>>

\* which branch of the update runs: 1, 2 or 3 in the order of the if chain
caseOf(ffa, ffc, ffd) ==
    IF sign(ffd) # sign(ffc) THEN 1 ELSE IF sign(ffd) # sign(ffa) THEN 2 ELSE 3

\* the midpoint: c = (a + b) * 0.5
midpoint(aa, bb) == FMul(FAdd(aa, bb), Half)

\* the accelerated point d, from the midpoint cc and fc = f(cc)
accelerated(aa, ffa, ffb, cc, ffc) ==
    FAdd(cc, FDiv(FMul(FSub(cc, aa), FMul(sign(FSub(ffa, ffb)), ffc)),
                  FSqrt(FSub(FMul(ffc, ffc), FMul(ffa, ffb)))))

\* the else branch of the loop body, then i--.  The for statement has no
\* condition: i is never tested, and the panic after the loop is unreachable.
IllinoisStep ==
    /\ pc = "loop"
    /\ ~converged(a, b)
    /\ i > -MaxOverrun
    /\ LET cc == midpoint(a, b)
           ffc == f(cc)
           dd == accelerated(a, fa, fb, cc, ffc)
           ffd == f(dd)
           nb == illinois(a, b, fa, fb, cc, ffc, dd, ffd)
       IN /\ c' = cc
          /\ fc' = ffc
          /\ d' = dd
          /\ fd' = ffd
          /\ a' = nb[1]
          /\ b' = nb[2]
          /\ fa' = nb[3]
          /\ fb' = nb[4]
          /\ taken' = taken \cup {caseOf(fa, ffc, ffd)}
    /\ i' = i - 1
    /\ UNCHANGED <<pc, sigma, phi, v, delta, tau, ret, a0, branch, logArg, bracketed0>>
    /\ UNCHANGED volKVars
    /\ UNCHANGED rateVars

\* ------------------------------------------------------------- inputs

\* longest opponent list
MaxOpp == 2

\* Opponent{Rj, Rdj, Sj}: the opponents of the tests, and a draw
Opponents ==
    { [Rj |-> Lit(1400), Rdj |-> Lit(30), Sj |-> FOne],
      [Rj |-> Lit(1550), Rdj |-> Lit(100), Sj |-> FZero],
      [Rj |-> Lit(1700), Rdj |-> Lit(300), Sj |-> FZero],
      [Rj |-> Lit(1500), Rdj |-> Lit(200), Sj |-> Half] }

OpponentLists == UNION { [1..n -> Opponents] : n \in 0..MaxOpp }

Mus == { FZero, -Half, FOne }

Sigmas == { Half, FOne, Lit(2) }
Phis == { FOne, 115, Lit(2) }
Vs == { Half, FOne, 178, PInf }
Deltas == { -48, FOne, 120, 150, Lit(2), Lit(3) }
Taus == { Half, FOne }

\* the functions volK is called with directly: constants, and t - x
TestFns ==
    { [kind |-> "const", t |-> tt] : tt \in { -FOne, FZero, FOne, NaN } }
    \cup { [kind |-> "ramp", t |-> tt] : tt \in { -Lit(2), -120, -Half, 30 } }
Starts == { FZero, -Half, 6 }
VolKTaus == { Half, FOne, -Half }

rateIdle ==
    /\ rpc = "idle" /\ mu = 0 /\ os = <<>> /\ os0 = <<>> /\ res = <<>>
    /\ ri = 0 /\ s = 0 /\ vOut = 0

volLocals ==
    /\ a = 0 /\ b = 0 /\ fa = 0 /\ fb = 0 /\ c = 0 /\ fc = 0 /\ d = 0 /\ fd = 0
    /\ i = 0 /\ ret = 0 /\ k = 0 /\ vc = 0
    /\ a0 = 0 /\ branch = "none" /\ logArg = 0 /\ steps = 0 /\ bracketed0 = FALSE
    /\ taken = {}

volIdle ==
    /\ pc = "idle" /\ sigma = 0 /\ phi = 0 /\ v = 0 /\ delta = 0 /\ tau = 0
    /\ caller = "none" /\ fsel = [kind |-> "none", t |-> 0] /\ va = 0 /\ vtau = 0
    /\ volLocals

\* ------------------------------------------------------- specifications

\* computeVolatility(sigma, phi, v, delta, tau)
Init ==
    /\ rateIdle
    /\ pc = "computeVolatility"
    /\ sigma \in Sigmas /\ phi \in Phis /\ v \in Vs /\ delta \in Deltas /\ tau \in Taus
    /\ caller = "none" /\ fsel = [kind |-> "none", t |-> 0] /\ va = 0 /\ vtau = 0
    /\ volLocals

Next ==
    \/ computeVolatilityEnter
    \/ BracketLog
    \/ BracketVolK
    \/ volKEnter
    \/ volKLoop
    \/ volKReturn
    \/ EvalBracket
    \/ Converge
    \/ IllinoisStep

Spec == Init /\ [][Next]_vars

\* volK(f, a, tau) called on its own
InitVolK ==
    /\ rateIdle
    /\ pc = "volK"
    /\ sigma = 0 /\ phi = 0 /\ v = 0 /\ delta = 0 /\ tau = 0
    /\ caller = "direct" /\ fsel \in TestFns /\ va \in Starts /\ vtau \in VolKTaus
    /\ volLocals

NextVolK ==
    \/ volKEnter
    \/ volKLoop
    \/ volKReturn

SpecVolK == InitVolK /\ [][NextVolK]_vars

\* scaleOpponents(mu, os), then updateRating of its result
InitRate ==
    /\ volIdle
    /\ rpc = "scaleOpponents"
    /\ mu \in Mus
    /\ os \in OpponentLists
    /\ os0 = os
    /\ res = <<>> /\ ri = 0 /\ s = 0 /\ vOut = 0

NextRate ==
    \/ scaleOpponentsEnter
    \/ scaleOpponentsIter
    \/ scaleOpponentsReturn
    \/ updateRatingEnter
    \/ updateRatingIter
    \/ updateRatingReturn

SpecRate == InitRate /\ [][NextRate]_vars

\* --------------------------------------------------------------- claims

\* C1: the Illinois loop runs at most 100 iterations: i counts down from 100, one
\* per iteration, so it never goes below 0 (the hundred-and-first test fails
\* fatally instead of iterating).
C1_AtMost100Iterations == pc = "loop" => MaxIter - i <= MaxIter

\* C2: volK's search is bounded: it never makes more than 10,000 steps, having
\* aborted by then.
C2_VolKStepBound == pc = "volK_test" => steps <= 10000

\* C3: b is initialised with the logarithm exactly when delta^2 > phi^2 + v, so
\* the logarithm's argument is strictly positive whenever it is taken.
C3_LogOnlyWhenPositive ==
    branch # "none" =>
        /\ branch = "log" <=> FGt(FMul(delta, delta), FAdd(FMul(phi, phi), v))
        /\ branch = "log" => FGt(logArg, FZero)

\* the float64 k after n increments of 1.0 from 0.0
kAfter(n) == Norm(n * SC)

\* the n'th point of A, A, A - step, A - 2 step, ... (n from 0), step being
\* math.Sqrt(tau * tau)
ProbePoint(n) ==
    FSub(va, FMul(kAfter(IF n = 0 THEN 0 ELSE n - 1), FSqrt(FMul(vtau, vtau))))

\* C4 as stated: volK returns a probed point at which f is negative.
C4_VolKReturnsNegativePoint ==
    pc = "returned" => (ret = ProbePoint(steps) /\ FLt(callF(ret), FZero))

\* C4 as amended: volK probes A, A again, A - step, A - 2 step, ... downward in
\* that order and returns the first probed point at which f is not negative: f
\* is negative at every point probed before it.
C4_VolKReturnsFirstNonNegativePoint ==
    /\ pc = "volK_test" => vc = ProbePoint(steps)
    /\ pc = "returned" =>
        /\ ret = ProbePoint(steps)
        /\ ~FLt(callF(ret), FZero)
        /\ \A j \in 0..(steps - 1) : FLt(callF(ProbePoint(j)), FZero)

\* a search of several steps has returned a point below its start
C4_Witness ==
    pc = "returned" /\ steps >= 3 /\ FLt(ret, va) /\ ~FLt(callF(ret), FZero)

\* C5: scaleOpponents returns one record per opponent, in the order supplied,
\* record j computed from opponent j alone, and leaves the list as it was.
C5_OneRecordPerOpponentInOrder ==
    rpc \in {"scaled", "sum", "done"} =>
        /\ Len(res) = Len(os0)
        /\ os = os0
        /\ \A j \in 1..Len(os0) :
              LET muj == FDiv(FSub(os0[j].Rj, Lit(1500)), scaling)
                  phij == FDiv(os0[j].Rdj, scaling)
              IN res[j] = [muj |-> muj, phij |-> phij, gphij |-> g(phij),
                           emmp |-> e(mu, muj, phij), sj |-> os0[j].Sj]

\* scaleOpponents has returned for two different opponents
C5_Witness == rpc = "scaled" /\ Len(os0) = 2 /\ os0[1] # os0[2]

\* C6: for an empty opponent list updateRating's sum is zero and it returns 1 / 0,
\* which is +Inf: no finite value is put in its place.
C6_EmptyListGivesInfinity ==
    (rpc = "done" /\ Len(os0) = 0) => (s = FZero /\ vOut = PInf)

\* updateRating has returned for the empty list
C6_Witness == rpc = "done" /\ Len(os0) = 0

\* C7: an iteration that has not converged takes C the midpoint of (A, B),
\* fc = f(C) and fd = f(D), and then: if sign(fd) # sign(fc) the bracket becomes
\* (C, D); else if sign(fd) # sign(fa), A stays and B becomes D; else A becomes
\* D and B stays.
C7_IllinoisUpdateRule ==
    [][(pc = "loop" /\ pc' = "loop" /\ i' # i) =>
          /\ c' = FMul(FAdd(a, b), Half)
          /\ fc' = fAt(c', a)
          /\ fd' = fAt(d', a)
          /\ IF sign(fd') # sign(fc') THEN a' = c' /\ b' = d'
             ELSE IF sign(fd') # sign(fa) THEN a' = a /\ b' = d'
             ELSE a' = d' /\ b' = b]_vars

\* one run has taken each of the three cases
C7_Witness == pc = "loop" /\ taken = {1, 2, 3}

\* C8: computeVolatility returns only from the convergence test, which comes
\* first in every iteration: a return is a step from the loop with |B - A| <= ε
\* that leaves the bracket alone and returns exp(A / 2) for the current A, and a
\* converged bracket is never iterated on.
C8_ReturnsOnlyOnConvergence ==
    [][/\ (pc' = "done" /\ pc # "done") =>
             /\ pc = "loop"
             /\ FLe(FAbs(FSub(b, a)), eps)
             /\ a' = a /\ b' = b
             /\ ret' = FExp(FDiv(a, Lit(2)))
       /\ (pc = "loop" /\ FLe(FAbs(FSub(b, a)), eps)) => pc' = "done"]_vars

\* a run has returned after updates that moved A
C8_Witness == pc = "done" /\ i < MaxIter /\ a # a0 /\ ret = FExp(FDiv(a, Lit(2)))

\* C9: when the stored values of the initial bracket differ in sign, fa and fb
\* differ in sign at the start of every iteration.
C9_BracketPreserved == (pc = "loop" /\ bracketed0) => sign(fa) # sign(fb)

\* a bracketed run has made several updates, the third case among them
C9_Witness == pc = "loop" /\ bracketed0 /\ i <= MaxIter - 2 /\ 3 \in taken

\* C10: at the start of every iteration fa = f(A) and fb = f(B) for the current
\* endpoints.
C10_StoredValuesCurrent == pc = "loop" => (fa = f(a) /\ fb = f(b))

====
